---- MODULE Spec2Model ----
(***************************************************************************)
(* Model of the AI email sender: the two request handlers                  *)
(* (POST /api/generate, POST /api/send) and the page that drives them.     *)
(* JavaScript strings are sequences of one-character strings.              *)
(***************************************************************************)
EXTENDS Integers, Sequences, FiniteSets, TLC

VARIABLES
    \* POST /api/generate, one invocation
    genPc, genReq, genKey, genTimer, genElapsed, genCalls, genProvider,
    genUpstream, genResps,
    \* POST /api/send, one invocation
    sendPc, sendReq, sendEnv, recipientList, verifyCalls, sendMailCalls,
    transport, sendResps,
    \* the page (Home component)
    status, loadingGen, loadingSend, uiGen, uiSend, fields,
    \* recipient parsing on its own
    recPc, recIn, recOut, recAgain,
    \* subject/body split on its own
    subPc, subIn, subOut

genVars == <<genPc, genReq, genKey, genTimer, genElapsed, genCalls, genProvider,
             genUpstream, genResps>>
sendVars == <<sendPc, sendReq, sendEnv, recipientList, verifyCalls, sendMailCalls,
              transport, sendResps>>
uiVars == <<status, loadingGen, loadingSend, uiGen, uiSend, fields>>
recVars == <<recPc, recIn, recOut, recAgain>>
subVars == <<subPc, subIn, subOut>>
vars == <<genVars, sendVars, uiVars, recVars, subVars>>

notGenVars == <<sendVars, uiVars, recVars, subVars>>
notSendVars == <<genVars, uiVars, recVars, subVars>>
notUiVars == <<genVars, sendVars, recVars, subVars>>
notRecVars == <<genVars, sendVars, uiVars, subVars>>
notSubVars == <<genVars, sendVars, uiVars, recVars>>

-----------------------------------------------------------------------------
(* Bounds of the model *)

\* longest input, in tokens, handed to the recipient parser
MaxRecTokens == 4
\* longest provider reply, in tokens, handed to the subject/body split
MaxSubTokens == 5
\* the clock stops counting here (seconds since the provider call was issued)
MaxClock == 17

-----------------------------------------------------------------------------
(* Strings *)

Max(S) == CHOOSE x \in S : \A y \in S : y <= x
Min(S) == CHOOSE x \in S : \A y \in S : x <= y

\* \s of a JavaScript regular expression, and what String.prototype.trim removes
IsWhitespace(c) == c \in {" ", "\t", "\n", "\r"}

\* what "." does not match and where ^ and $ match under the m flag
IsLineTerminator(c) == c \in {"\n", "\r"}

SubStr(s, from, to) == [k \in 1..(to - from + 1) |-> s[from + k - 1]]

\* String.prototype.trim
Trim(s) ==
    LET solid == {k \in 1..Len(s) : ~IsWhitespace(s[k])}
    IN IF solid = {} THEN <<>> ELSE SubStr(s, Min(solid), Max(solid))

RECURSIVE Flatten(_)
Flatten(ss) == IF ss = <<>> THEN <<>> ELSE Head(ss) \o Flatten(Tail(ss))

\* every concatenation of at most n of the given pieces
Phrases(pieces, n) ==
    {Flatten(p) : p \in UNION {[1..k -> pieces] : k \in 0..n}}

-----------------------------------------------------------------------------
(* Recipient parsing: send handler, recipients.split(...).map(...).filter(...) *)

\* the character class [\n,;] of the split
IsSeparator(c) == c \in {"\n", ",", ";"}

SkipSeparators(s, i) ==
    Min({k \in i..(Len(s) + 1) : k = Len(s) + 1 \/ ~IsSeparator(s[k])})

\* String.prototype.split(/[\n,;]+/): the pieces between maximal runs of
\* separators, an empty piece before a leading run and after a trailing one
RECURSIVE SplitFrom(_, _, _)
SplitFrom(s, i, cur) ==
    IF i > Len(s) THEN <<cur>>
    ELSE IF IsSeparator(s[i])
         THEN <<cur>> \o SplitFrom(s, SkipSeparators(s, i), <<>>)
         ELSE SplitFrom(s, i + 1, Append(cur, s[i]))

Split(s) == SplitFrom(s, 1, <<>>)

\* the character class [^\s@]
IsLocalChar(c) == ~IsWhitespace(c) /\ c # "@"

\* /^[^\s@]+@[^\s@]+\.[^\s@]+$/.test(email)
EmailShape(e) ==
    \E i, j \in 1..Len(e) :
        /\ e[i] = "@" /\ e[j] = "."
        /\ 1 < i /\ i + 1 < j /\ j < Len(e)
        /\ \A k \in 1..(i - 1) : IsLocalChar(e[k])
        /\ \A k \in (i + 1)..(j - 1) : IsLocalChar(e[k])
        /\ \A k \in (j + 1)..Len(e) : IsLocalChar(e[k])

\* Array.prototype.filter with the email-shape test
RECURSIVE FilterEmails(_)
FilterEmails(list) ==
    IF list = <<>> THEN <<>>
    ELSE (IF EmailShape(Head(list)) THEN <<Head(list)>> ELSE <<>>)
         \o FilterEmails(Tail(list))

\* Array.prototype.map((s) => s.trim())
MapTrim(list) == [k \in 1..Len(list) |-> Trim(list[k])]

\* a parse that forgets the filter
ParseRecipientsUnfiltered(recipients) == MapTrim(Split(recipients))

\* the recipientList of the send handler
ParseRecipients(recipients) == FilterEmails(MapTrim(Split(recipients)))

\* a join on a blank alone
RECURSIVE JoinBlank(_)
JoinBlank(list) ==
    IF list = <<>> THEN <<>>
    ELSE IF Len(list) = 1 THEN Head(list)
    ELSE Head(list) \o <<" ">> \o JoinBlank(Tail(list))

\* Array.prototype.join(', '), the To header of sendMail
RECURSIVE JoinTo(_)
JoinTo(list) ==
    IF list = <<>> THEN <<>>
    ELSE IF Len(list) = 1 THEN Head(list)
    ELSE Head(list) \o <<",", " ">> \o JoinTo(Tail(list))

-----------------------------------------------------------------------------
(* Subject/body split: generate handler, step 5 *)

\* the literal "Subject:" of the regular expression
Keyword == <<"S", "u", "b", "j", "e", "c", "t", ":">>

\* the i flag: letters compare without case
ToLower(c) ==
    CASE c = "S" -> "s" [] c = "U" -> "u" [] c = "B" -> "b" [] c = "J" -> "j"
      [] c = "E" -> "e" [] c = "C" -> "c" [] c = "T" -> "t" [] OTHER -> c

\* the m flag: ^ matches at the start and after every line terminator
IsLineStart(s, p) == p = 1 \/ (p > 1 /\ p <= Len(s) + 1 /\ IsLineTerminator(s[p - 1]))

\* a comparison that minds the case
KeywordAtCaseSensitive(s, p) ==
    /\ p + Len(Keyword) - 1 <= Len(s)
    /\ \A k \in 1..Len(Keyword) : s[p + k - 1] = Keyword[k]

KeywordAt(s, p) ==
    /\ p + Len(Keyword) - 1 <= Len(s)
    /\ \A k \in 1..Len(Keyword) : ToLower(s[p + k - 1]) = ToLower(Keyword[k])

\* where the group (.+) can start for a match of /^Subject:\s*(.+)$/im at p:
\* after a run of \s (line terminators included), on a character "." matches
CaptureStarts(s, p) ==
    LET q == p + Len(Keyword)
    IN {k \in q..Len(s) :
            /\ \A j \in q..(k - 1) : IsWhitespace(s[j])
            /\ ~IsLineTerminator(s[k])}

\* one past the last character of the line that holds position k
LineEnd(s, k) ==
    Min({e \in k..(Len(s) + 1) : e = Len(s) + 1 \/ IsLineTerminator(s[e])})

MatchesAt(s, p) == IsLineStart(s, p) /\ KeywordAt(s, p) /\ CaptureStarts(s, p) # {}

\* String.prototype.match(/^Subject:\s*(.+)$/im): the leftmost match; \s* is
\* greedy, so the group starts as far right as it can, and runs to the line's end
subjectMatch(s) ==
    LET starts == {p \in 1..Len(s) : MatchesAt(s, p)}
    IN IF starts = {} THEN [found |-> FALSE]
       ELSE LET p == Min(starts)
                k == Max(CaptureStarts(s, p))
                e == LineEnd(s, k)
            IN [found |-> TRUE, from |-> p, to |-> e - 1, group |-> SubStr(s, k, e - 1)]

DefaultSubject == <<"Your AI-generated email">>

\* lines 108-117: { subject, body } from a reply content that is not blank
SplitSubject(content) ==
    LET emailBody == Trim(content)
        m == subjectMatch(emailBody)
    IN IF m.found
       THEN [subject |-> Trim(m.group),
             body |-> Trim(SubStr(emailBody, 1, m.from - 1)
                           \o SubStr(emailBody, m.to + 1, Len(emailBody)))]
       ELSE [subject |-> DefaultSubject, body |-> emailBody]

-----------------------------------------------------------------------------
(* POST /api/generate *)

\* setTimeout(() => controller.abort(), 15_000), in seconds
TimeoutSec == 15

\* jsonError of the generate route: NextResponse.json({ error }, { status })
genJsonError(message, code) == [status |-> code, error |-> message]

\* request bodies: not JSON, JSON null, a JSON primitive, an object with a prompt
Prompts ==
    {[type |-> "undefined", val |-> <<>>], [type |-> "null", val |-> <<>>],
     [type |-> "number", val |-> <<"0">>], [type |-> "number", val |-> <<"5">>],
     [type |-> "boolean", val |-> <<"true">>], [type |-> "object", val |-> <<>>],
     [type |-> "string", val |-> <<>>], [type |-> "string", val |-> <<"h", "i">>]}

Undefined == [type |-> "undefined", val |-> <<>>]

GenRequests ==
    {[kind |-> k, prompt |-> Undefined] : k \in {"notjson", "null", "primitive"}}
    \cup {[kind |-> "object", prompt |-> p] : p \in Prompts}

\* const { prompt } = (bodyJson ?? {}) as Partial<GenerateBody>
PromptOf(req) == IF req.kind = "object" THEN req.prompt ELSE Undefined

\* JavaScript truthiness of a prompt value
Truthy(p) ==
    CASE p.type = "string" -> p.val # <<>>
      [] p.type = "number" -> p.val # <<"0">>
      [] p.type = "boolean" -> p.val = <<"true">>
      [] p.type = "object" -> TRUE
      [] OTHER -> FALSE

\* a check of the type alone, which lets the empty string through
InvalidPromptTypeOnly(p) == p.type # "string"

\* !prompt || typeof prompt !== 'string'
InvalidPrompt(p) == ~Truthy(p) \/ p.type # "string"

\* what the provider may answer: a status, and for a success a reply body
UpstreamStatuses == {200, 401, 429, 503}

\* resp.ok
RespOk(code) == code >= 200 /\ code <= 299

CodeText(code) ==
    CASE code = 401 -> "401" [] code = 429 -> "429" [] code = 503 -> "503"
      [] OTHER -> "200"

\* the text of an error reply; reading it may fail, which .catch turns into ''
UpstreamTexts == {<<>>, <<"rate limit reached">>}

\* the reply of a success: unparseable, or JSON whose first choice has content
\* (absent when choices are missing or the content is no string)
Scenario == Keyword \o <<" ", "H", "i", "\n", "\n", "D", "e", "a", "r">>
UpstreamReplies ==
    {[json |-> FALSE, hasContent |-> FALSE, content |-> <<>>],
     [json |-> TRUE, hasContent |-> FALSE, content |-> <<>>]}
    \cup {[json |-> TRUE, hasContent |-> TRUE, content |-> c] :
            c \in {<<>>, <<" ", "\n">>, <<"H", "i">>, Scenario,
                   Keyword \o <<"\n", "H", "i">>}}

\* lines 97-101
ContentOf(reply) == IF reply.hasContent THEN reply.content ELSE <<>>

\* lines 103-117: the response for a reply content
ShapeReply(content) ==
    IF Trim(content) = <<>>
    THEN genJsonError(<<"AI service returned empty content">>, 502)
    ELSE LET r == SplitSubject(content)
         IN [status |-> 200, subject |-> r.subject, body |-> r.body]

GenInit ==
    /\ genPc = "idle"
    /\ genReq = [kind |-> "none", prompt |-> Undefined]
    /\ genKey = FALSE
    /\ genTimer = "unset"
    /\ genElapsed = 0
    /\ genCalls = 0
    /\ genProvider = "none"
    /\ genUpstream = [stalled |-> FALSE, status |-> 0]
    /\ genResps = <<>>

\* the handler returns a response
GenReturn(resp) ==
    /\ genResps' = Append(genResps, resp)
    /\ genPc' = "returned"

\* a request arrives, under some environment
GenReceive(req, key) ==
    /\ genPc = "idle"
    /\ genPc' = "received"
    /\ genReq' = req
    /\ genKey' = key
    /\ UNCHANGED <<genTimer, genElapsed, genCalls, genProvider, genUpstream, genResps>>
    /\ UNCHANGED notGenVars

\* lines 36-80: body, prompt and key checks, then the timer and the fetch
GenValidate ==
    /\ genPc = "received"
    /\ IF genReq.kind = "notjson"
       THEN /\ GenReturn(genJsonError(<<"Request body must be JSON with { prompt: string }">>, 400))
            /\ UNCHANGED <<genTimer, genCalls, genProvider>>
       ELSE IF InvalidPrompt(PromptOf(genReq))
       THEN /\ GenReturn(genJsonError(<<"Invalid prompt. Please provide a valid string.">>, 400))
            /\ UNCHANGED <<genTimer, genCalls, genProvider>>
       ELSE IF ~genKey
       THEN /\ GenReturn(genJsonError(<<"Server configuration error: Missing GROQ_API_KEY">>, 500))
            /\ UNCHANGED <<genTimer, genCalls, genProvider>>
       ELSE /\ genTimer' = "armed"
            /\ genCalls' = genCalls + 1
            /\ genProvider' = "pending"
            /\ genPc' = "fetching"
            /\ UNCHANGED genResps
    /\ UNCHANGED <<genReq, genKey, genElapsed, genUpstream>>
    /\ UNCHANGED notGenVars

\* a second passes while the call is out or the timer is set; a due timer
\* runs before more time passes
Tick ==
    /\ genTimer = "armed" \/ genProvider \in {"pending", "replying"}
    /\ ~(genTimer = "armed" /\ genElapsed >= TimeoutSec)
    /\ genElapsed < MaxClock
    /\ genElapsed' = genElapsed + 1
    /\ UNCHANGED <<genPc, genReq, genKey, genTimer, genCalls, genProvider,
                   genUpstream, genResps>>
    /\ UNCHANGED notGenVars

\* the provider goes silent for good
ProviderStalls ==
    /\ genProvider \in {"pending", "replying"}
    /\ ~genUpstream.stalled
    /\ genUpstream' = [genUpstream EXCEPT !.stalled = TRUE]
    /\ UNCHANGED <<genPc, genReq, genKey, genTimer, genElapsed, genCalls,
                   genProvider, genResps>>
    /\ UNCHANGED notGenVars

\* line 57, the timer's callback: controller.abort(); a fetch still pending
\* rejects with AbortError, which lines 119-121 answer with 504
TimerFire ==
    /\ genTimer = "armed"
    /\ genElapsed >= TimeoutSec
    /\ genTimer' = "fired"
    /\ IF genPc = "fetching"
       THEN /\ genProvider' = "aborted"
            /\ GenReturn(genJsonError(<<"AI service timed out. Please try again.">>, 504))
       ELSE UNCHANGED <<genProvider, genPc, genResps>>
    /\ UNCHANGED <<genReq, genKey, genElapsed, genCalls, genUpstream>>
    /\ UNCHANGED notGenVars

\* lines 80-87: fetch resolves once the provider's status line and headers are in
FetchResolve(code) ==
    /\ genPc = "fetching"
    /\ ~genUpstream.stalled
    /\ genTimer' = "cleared"
    /\ genProvider' = "replying"
    /\ genUpstream' = [genUpstream EXCEPT !.status = code]
    /\ genPc' = IF RespOk(code) THEN "readingJson" ELSE "readingText"
    /\ UNCHANGED <<genReq, genKey, genElapsed, genCalls, genResps>>
    /\ UNCHANGED notGenVars

\* fetch rejects (no route, reset): lines 118-127, the timer is left set
FetchReject ==
    /\ genPc = "fetching"
    /\ ~genUpstream.stalled
    /\ genProvider' = "failed"
    /\ GenReturn(genJsonError(<<"Server error: ", "fetch failed">>, 500))
    /\ UNCHANGED <<genReq, genKey, genTimer, genElapsed, genCalls, genUpstream>>
    /\ UNCHANGED notGenVars

\* lines 84-87: the error text is read and returned under the provider's status
ReadText(txt) ==
    /\ genPc = "readingText"
    /\ ~genUpstream.stalled
    /\ genProvider' = "done"
    /\ GenReturn(genJsonError(
          <<"AI service error (", CodeText(genUpstream.status), "): ">>
              \o (IF txt # <<>> THEN txt ELSE <<"No response body">>),
          genUpstream.status))
    /\ UNCHANGED <<genReq, genKey, genTimer, genElapsed, genCalls, genUpstream>>
    /\ UNCHANGED notGenVars

\* lines 89-117: the reply is read, parsed and shaped
ReadJson(reply) ==
    /\ genPc = "readingJson"
    /\ ~genUpstream.stalled
    /\ genProvider' = "done"
    /\ IF ~reply.json
       THEN GenReturn(genJsonError(<<"Invalid response from AI service">>, 502))
       ELSE GenReturn(ShapeReply(ContentOf(reply)))
    /\ UNCHANGED <<genReq, genKey, genTimer, genElapsed, genCalls, genUpstream>>
    /\ UNCHANGED notGenVars

GenNext ==
    \/ \E req \in GenRequests, key \in BOOLEAN : GenReceive(req, key)
    \/ GenValidate
    \/ Tick
    \/ ProviderStalls
    \/ TimerFire
    \/ \E code \in UpstreamStatuses : FetchResolve(code)
    \/ FetchReject
    \/ \E txt \in UpstreamTexts : ReadText(txt)
    \/ \E reply \in UpstreamReplies : ReadJson(reply)

-----------------------------------------------------------------------------
(* POST /api/send *)

\* the zod schema, lines 135-139
MinRecipients == 3
MaxSubject == 200
MaxBody == 10000

\* a jsonError that drops the details
sendJsonErrorNoDetails(message, code, details) == [status |-> code, error |-> message]

\* jsonError of the send route: details are left out when falsy
sendJsonError(message, code, details) ==
    IF details # <<>> /\ details # <<"">>
    THEN [status |-> code, error |-> message, details |-> details]
    ELSE [status |-> code, error |-> message]

\* a field of the request body: missing, some other type, or a string
\* (recipients carry their characters, subject and body their length)
RecipientInputs ==
    {<<"a", "@", "b", ".", "c">>,
     <<"a", "@", "b", ".", "c", ",", " ", "x", ";", "d", "@", "e", ".", "f">>,
     <<"n", "o", "t", "-", "a", "n", "-", "e", "m", "a", "i", "l">>,
     <<",", " ", ";">>,
     <<"a", "@">>}

NoField == [type |-> "undefined", val |-> <<>>, len |-> 0]

NoRequest == [json |-> FALSE, recipients |-> NoField, subject |-> NoField, body |-> NoField]

SendRequests ==
    {NoRequest}
    \cup {[json |-> TRUE, recipients |-> [type |-> "string", val |-> r, len |-> Len(r)],
           subject |-> [type |-> "string", val |-> <<>>, len |-> 1],
           body |-> [type |-> "string", val |-> <<>>, len |-> MaxBody]] : r \in RecipientInputs}
    \cup {[json |-> TRUE,
           recipients |-> [type |-> "string", val |-> <<"a", "@", "b", ".", "c">>, len |-> 5],
           subject |-> [type |-> "string", val |-> <<>>, len |-> sl],
           body |-> [type |-> "string", val |-> <<>>, len |-> bl]] :
            sl \in {0, MaxSubject + 1}, bl \in {1, MaxBody + 1}}
    \cup {[json |-> TRUE, recipients |-> [type |-> t, val |-> <<>>, len |-> 0],
           subject |-> [type |-> "string", val |-> <<>>, len |-> MaxSubject],
           body |-> [type |-> "string", val |-> <<>>, len |-> 1]] : t \in {"undefined", "number"}}

\* schema.safeParse(jsonUnknown).success
SchemaOk(req) ==
    /\ req.recipients.type = "string" /\ req.recipients.len >= MinRecipients
    /\ req.subject.type = "string" /\ req.subject.len >= 1 /\ req.subject.len <= MaxSubject
    /\ req.body.type = "string" /\ req.body.len >= 1 /\ req.body.len <= MaxBody

\* parsed.error.flatten(): the fields in violation
SchemaIssues(req) ==
    (IF req.recipients.type = "string" /\ req.recipients.len >= MinRecipients
        THEN <<>> ELSE <<"recipients">>)
    \o (IF req.subject.type = "string" /\ req.subject.len >= 1 /\ req.subject.len <= MaxSubject
        THEN <<>> ELSE <<"subject">>)
    \o (IF req.body.type = "string" /\ req.body.len >= 1 /\ req.body.len <= MaxBody
        THEN <<>> ELSE <<"body">>)

\* process.env: which of SMTP_HOST, SMTP_USER, SMTP_PASS, FROM_EMAIL are set
SendEnvs == [host : BOOLEAN, user : BOOLEAN, pass : BOOLEAN, fromEmail : BOOLEAN]

\* const from = process.env.FROM_EMAIL || user
HasFrom(env) == env.fromEmail \/ env.user

\* a check that forgets the secret
ConfigMissingNoPass(env) == ~env.host \/ ~env.user \/ ~HasFrom(env)

\* !host || !user || !pass || !from
ConfigMissing(env) == ~env.host \/ ~env.user \/ ~env.pass \/ ~HasFrom(env)

\* what verify() and sendMail() reject with: an Error's message or a thrown value
TransportErrors == {<<"connect ECONNREFUSED">>, <<"Invalid login">>}

MessageIds == {<<"<id-1@host>">>}

SendInit ==
    /\ sendPc = "idle"
    /\ sendReq = NoRequest
    /\ sendEnv = [host |-> FALSE, user |-> FALSE, pass |-> FALSE, fromEmail |-> FALSE]
    /\ recipientList = <<>>
    /\ verifyCalls = 0
    /\ sendMailCalls = 0
    /\ transport = [verify |-> "none", error |-> <<>>, mail |-> "none"]
    /\ sendResps = <<>>

SendReturn(resp) ==
    /\ sendResps' = Append(sendResps, resp)
    /\ sendPc' = "returned"

SendReceive(req, env) ==
    /\ sendPc = "idle"
    /\ sendPc' = "received"
    /\ sendReq' = req
    /\ sendEnv' = env
    /\ UNCHANGED <<recipientList, verifyCalls, sendMailCalls, transport, sendResps>>
    /\ UNCHANGED notSendVars

\* lines 150-210: body, schema, configuration and recipients, then verify()
SendValidate ==
    /\ sendPc = "received"
    /\ IF ~sendReq.json
       THEN /\ SendReturn(sendJsonError(<<"Request body must be JSON">>, 400, <<>>))
            /\ UNCHANGED <<recipientList, verifyCalls>>
       ELSE IF ~SchemaOk(sendReq)
       THEN /\ SendReturn([status |-> 400, error |-> <<"Validation failed">>,
                           details |-> SchemaIssues(sendReq)])
            /\ UNCHANGED <<recipientList, verifyCalls>>
       ELSE IF ConfigMissing(sendEnv)
       THEN /\ SendReturn(sendJsonError(<<"Email service is not configured properly">>, 500, <<>>))
            /\ UNCHANGED <<recipientList, verifyCalls>>
       ELSE /\ recipientList' = ParseRecipients(sendReq.recipients.val)
            /\ IF ParseRecipients(sendReq.recipients.val) = <<>>
               THEN /\ SendReturn(sendJsonError(<<"No valid email recipients found">>, 400, <<>>))
                    /\ UNCHANGED verifyCalls
               ELSE /\ verifyCalls' = verifyCalls + 1
                    /\ sendPc' = "verifying"
                    /\ UNCHANGED sendResps
    /\ UNCHANGED <<sendReq, sendEnv, sendMailCalls, transport>>
    /\ UNCHANGED notSendVars

\* lines 209-219: verify() resolved, sendMail() is called
VerifyOk ==
    /\ sendPc = "verifying"
    /\ sendMailCalls' = sendMailCalls + 1
    /\ sendPc' = "sending"
    /\ transport' = [transport EXCEPT !.verify = "ok"]
    /\ UNCHANGED <<sendReq, sendEnv, recipientList, verifyCalls, sendResps>>
    /\ UNCHANGED notSendVars

\* lines 212-216: verify() rejected
VerifyFail(e) ==
    /\ sendPc = "verifying"
    /\ transport' = [transport EXCEPT !.verify = "failed", !.error = e]
    /\ SendReturn(sendJsonError(<<"Failed to connect to email server">>, 502, e))
    /\ UNCHANGED <<sendReq, sendEnv, recipientList, verifyCalls, sendMailCalls>>
    /\ UNCHANGED notSendVars

\* lines 247-258: sendMail() resolved
SendMailOk(id) ==
    /\ sendPc = "sending"
    /\ transport' = [transport EXCEPT !.mail = "ok"]
    /\ SendReturn([status |-> 200, success |-> TRUE, messageId |-> id])
    /\ UNCHANGED <<sendReq, sendEnv, recipientList, verifyCalls, sendMailCalls>>
    /\ UNCHANGED notSendVars

\* lines 259-272: sendMail() rejected, the outer catch answers
SendMailFail(e) ==
    /\ sendPc = "sending"
    /\ transport' = [transport EXCEPT !.mail = "failed"]
    /\ SendReturn([status |-> 500, error |-> <<"Failed to send email">>, details |-> e])
    /\ UNCHANGED <<sendReq, sendEnv, recipientList, verifyCalls, sendMailCalls>>
    /\ UNCHANGED notSendVars

SendNext ==
    \/ \E req \in SendRequests, env \in SendEnvs : SendReceive(req, env)
    \/ SendValidate
    \/ VerifyOk
    \/ \E e \in TransportErrors : VerifyFail(e)
    \/ \E id \in MessageIds : SendMailOk(id)
    \/ \E e \in TransportErrors : SendMailFail(e)

-----------------------------------------------------------------------------
(* The page: Home, handleGenerate, handleSend *)

\* text.slice(0, 180)
SliceLen == 180

\* the status line: null, or a text; cut is the length kept of a raw excerpt
NoStatus == [kind |-> "null", text |-> <<>>, cut |-> 0]
DraftStatus ==
    [kind |-> "draft", text |-> <<"Draft generated. You can edit before sending.">>, cut |-> 0]
SentStatus(id) == [kind |-> "sent", text |-> <<"Sent! messageId=">> \o id, cut |-> 0]
ErrorStatus(msg) == [kind |-> "error", text |-> <<"Error: ">> \o msg.text, cut |-> msg.cut]

\* response bodies the page may read: empty, not JSON, JSON with an error
\* string (possibly ''), JSON without one (filled: it carries the result fields)
UiBodies ==
    {[parsed |-> FALSE, raw |-> <<>>, len |-> 0, error |-> <<>>, filled |-> FALSE],
     [parsed |-> FALSE, raw |-> <<"<html>Bad Gateway</html>">>, len |-> 400, error |-> <<>>,
      filled |-> FALSE],
     [parsed |-> TRUE, raw |-> <<"{error:E}">>, len |-> 60,
      error |-> <<"Failed to connect to email server">>, filled |-> FALSE],
     [parsed |-> TRUE, raw |-> <<"{error:''}">>, len |-> 12, error |-> <<"">>, filled |-> FALSE],
     [parsed |-> TRUE, raw |-> <<"{}">>, len |-> 2, error |-> <<>>, filled |-> FALSE],
     [parsed |-> TRUE, raw |-> <<"{result}">>, len |-> 90, error |-> <<>>, filled |-> TRUE]}

UiResponses == [ok : BOOLEAN, body : UiBodies]

\* what fetch or res.text() may throw
FetchErrors == {<<"Failed to fetch">>}

\* a message that ignores what the server said
serverMsgFallback(body, fallback) == [text |-> fallback, cut |-> 0]

\* lines 51-53 and 82-84: the server's error string, else an excerpt of the
\* raw text, else the fallback
serverMsg(body, fallback) ==
    IF body.parsed /\ body.error # <<>> /\ body.error # <<"">>
    THEN [text |-> body.error, cut |-> 0]
    ELSE IF body.len > 0
    THEN [text |-> <<"Server returned non-JSON: ">> \o body.raw,
          cut |-> IF body.len < SliceLen THEN body.len ELSE SliceLen]
    ELSE [text |-> fallback, cut |-> 0]

Thrown(e) == [text |-> e, cut |-> 0]

\* no request in flight; how the last one ended
UiIdle(how) == [pc |-> "idle", ended |-> how]

UiInit ==
    /\ status = NoStatus
    /\ loadingGen = FALSE
    /\ loadingSend = FALSE
    /\ uiGen = UiIdle("never")
    /\ uiSend = UiIdle("never")
    /\ fields = [prompt |-> FALSE, recipients |-> FALSE, subject |-> FALSE, body |-> FALSE]

\* onChange of a textarea or input: the field becomes blank or not blank
EditField(f, filled) ==
    /\ fields[f] # filled
    /\ fields' = [fields EXCEPT ![f] = filled]
    /\ UNCHANGED <<status, loadingGen, loadingSend, uiGen, uiSend>>
    /\ UNCHANGED notUiVars

\* lines 38-46 behind the Generate button (disabled while loading or no prompt)
GenClick ==
    /\ ~loadingGen /\ fields.prompt
    /\ status' = NoStatus
    /\ loadingGen' = TRUE
    /\ uiGen' = [pc |-> "fetching"]
    /\ UNCHANGED <<loadingSend, uiSend, fields>>
    /\ UNCHANGED notUiVars

\* line 42: fetch resolved with a response
GenFetched(res) ==
    /\ uiGen.pc = "fetching"
    /\ uiGen' = [pc |-> "reading", res |-> res]
    /\ UNCHANGED <<status, loadingGen, loadingSend, uiSend, fields>>
    /\ UNCHANGED notUiVars

\* lines 62-66: fetch or res.text() threw
GenThrown(e) ==
    /\ uiGen.pc \in {"fetching", "reading"}
    /\ status' = ErrorStatus(Thrown(e))
    /\ loadingGen' = FALSE
    /\ uiGen' = UiIdle("thrown")
    /\ UNCHANGED <<loadingSend, uiSend, fields>>
    /\ UNCHANGED notUiVars

\* lines 48-66: the body is read; an error is shown, or the draft is taken over
GenRead ==
    /\ uiGen.pc = "reading"
    /\ IF ~uiGen.res.ok
       THEN /\ status' = ErrorStatus(serverMsg(uiGen.res.body, <<"Generate failed">>))
            /\ UNCHANGED fields
       ELSE /\ status' = DraftStatus
            /\ fields' = [fields EXCEPT !.subject = uiGen.res.body.filled,
                                        !.body = uiGen.res.body.filled]
    /\ loadingGen' = FALSE
    /\ uiGen' = UiIdle(IF uiGen.res.ok THEN "ok" ELSE "failed")
    /\ UNCHANGED <<loadingSend, uiSend>>
    /\ UNCHANGED notUiVars

\* lines 69-77 behind the Send button
SendClick ==
    /\ ~loadingSend /\ fields.recipients /\ fields.subject /\ fields.body
    /\ loadingSend' = TRUE
    /\ status' = NoStatus
    /\ uiSend' = [pc |-> "fetching"]
    /\ UNCHANGED <<loadingGen, uiGen, fields>>
    /\ UNCHANGED notUiVars

SendFetched(res) ==
    /\ uiSend.pc = "fetching"
    /\ uiSend' = [pc |-> "reading", res |-> res]
    /\ UNCHANGED <<status, loadingGen, loadingSend, uiGen, fields>>
    /\ UNCHANGED notUiVars

\* lines 90-94
SendThrown(e) ==
    /\ uiSend.pc \in {"fetching", "reading"}
    /\ status' = ErrorStatus(Thrown(e))
    /\ loadingSend' = FALSE
    /\ uiSend' = UiIdle("thrown")
    /\ UNCHANGED <<loadingGen, uiGen, fields>>
    /\ UNCHANGED notUiVars

\* lines 79-94
SendRead ==
    /\ uiSend.pc = "reading"
    /\ status' = IF ~uiSend.res.ok
                  THEN ErrorStatus(serverMsg(uiSend.res.body, <<"Send failed">>))
                  ELSE SentStatus(IF uiSend.res.body.filled THEN <<"<id-1@host>">>
                                  ELSE <<"unknown">>)
    /\ loadingSend' = FALSE
    /\ uiSend' = UiIdle(IF uiSend.res.ok THEN "ok" ELSE "failed")
    /\ UNCHANGED <<loadingGen, uiGen, fields>>
    /\ UNCHANGED notUiVars

UiNext ==
    \/ \E f \in {"prompt", "recipients", "subject", "body"}, v \in BOOLEAN : EditField(f, v)
    \/ GenClick
    \/ \E res \in UiResponses : GenFetched(res)
    \/ \E e \in FetchErrors : GenThrown(e)
    \/ GenRead
    \/ SendClick
    \/ \E res \in UiResponses : SendFetched(res)
    \/ \E e \in FetchErrors : SendThrown(e)
    \/ SendRead

-----------------------------------------------------------------------------
(* The two pure steps on their own, over every short input *)

RecTokens ==
    {<<"a", "@", "b", ".", "c">>, <<"a">>, <<"@">>, <<".">>, <<" ">>, <<",">>, <<";">>,
     <<"\n">>}

SubTokens ==
    {Keyword, <<"S", "U", "B", "J", "E", "C", "T", ":">>, <<"a">>, <<"b">>, <<" ">>, <<"\n">>}

RecOff == recPc = "off" /\ recIn = <<>> /\ recOut = <<>> /\ recAgain = <<>>
SubOff == subPc = "off" /\ subIn = <<>> /\ subOut = [status |-> 0]

\* the handler's parse of the recipients field
RecParse ==
    /\ recPc = "in"
    /\ recOut' = ParseRecipients(recIn)
    /\ recPc' = "parsed"
    /\ UNCHANGED <<recIn, recAgain>>
    /\ UNCHANGED notRecVars

\* the same parse on the To header built from the list
RecReparse ==
    /\ recPc = "parsed"
    /\ recAgain' = ParseRecipients(JoinTo(recOut))
    /\ recPc' = "reparsed"
    /\ UNCHANGED <<recIn, recOut>>
    /\ UNCHANGED notRecVars

RecNext == RecParse \/ RecReparse

\* the handler's shaping of a reply content
SubShape ==
    /\ subPc = "in"
    /\ subOut' = ShapeReply(subIn)
    /\ subPc' = "shaped"
    /\ UNCHANGED subIn
    /\ UNCHANGED notSubVars

SubNext == SubShape

-----------------------------------------------------------------------------
(* Specifications *)

Init == GenInit /\ SendInit /\ UiInit /\ RecOff /\ SubOff

Next == GenNext \/ SendNext

\* the two handlers, each serving one request
Spec == Init /\ [][Next]_vars

\* the page
SpecPage == Init /\ [][UiNext]_vars

RecipientsInit ==
    /\ GenInit /\ SendInit /\ UiInit /\ SubOff
    /\ recPc = "in" /\ recIn \in Phrases(RecTokens, MaxRecTokens)
    /\ recOut = <<>> /\ recAgain = <<>>

\* recipient parsing over every short recipients string
SpecRecipients == RecipientsInit /\ [][RecNext]_vars

SubjectInit ==
    /\ GenInit /\ SendInit /\ UiInit /\ RecOff
    /\ subPc = "in" /\ subIn \in Phrases(SubTokens, MaxSubTokens)
    /\ subOut = [status |-> 0]

\* reply shaping over every short reply content
SpecSubject == SubjectInit /\ [][SubNext]_vars

-----------------------------------------------------------------------------
(* Properties of the send handler *)

\* the request body passed schema validation
PassedSchema ==
    /\ sendReq.json
    /\ sendReq.recipients.type = "string" /\ sendReq.recipients.len >= 3
    /\ sendReq.subject.type = "string" /\ sendReq.subject.len \in 1..200
    /\ sendReq.body.type = "string" /\ sendReq.body.len \in 1..10000

\* no piece of the recipients string, trimmed, has the shape of an address
NoValidPiece ==
    LET pieces == Split(sendReq.recipients.val)
    IN \A k \in 1..Len(pieces) : ~EmailShape(Trim(pieces[k]))

ConfigComplete == sendEnv.host /\ sendEnv.user /\ sendEnv.pass

NoValidRecipients == [status |-> 400, error |-> <<"No valid email recipients found">>]
ConfigurationError == [status |-> 500, error |-> <<"Email service is not configured properly">>]

\* C1 as stated: a schema-valid request whose recipients hold no valid address
\* is answered 400 NoValidRecipients, whatever the configuration, and
\* transporter.verify() is never called
C1_AnyConfiguration ==
    (sendPc = "returned" /\ PassedSchema /\ NoValidPiece)
        => (sendResps = <<NoValidRecipients>> /\ verifyCalls = 0)

\* C1 amended: such a request never reaches transporter.verify(); it is answered
\* 400 NoValidRecipients when host, user and secret are configured, and 500
\* ConfigurationError when one of them is missing
C1_NoValidRecipients ==
    (sendPc # "idle" /\ PassedSchema /\ NoValidPiece)
        => /\ verifyCalls = 0
           /\ sendPc \in {"received", "returned"}
           /\ sendPc = "returned" =>
                 sendResps = <<IF ConfigComplete THEN NoValidRecipients
                               ELSE ConfigurationError>>

C1_Witness ==
    /\ sendPc = "returned" /\ PassedSchema /\ NoValidPiece /\ ConfigComplete
    /\ sendReq.recipients.val = <<"n", "o", "t", "-", "a", "n", "-", "e", "m", "a", "i", "l">>
    /\ sendResps = <<NoValidRecipients>>

\* C2: when transporter.verify() fails, sendMail is never called and the answer
\* is 502 'Failed to connect to email server' with the provider's text as details
C2_TransportConnectError ==
    transport.verify = "failed"
        => /\ sendMailCalls = 0
           /\ transport.mail = "none"
           /\ sendPc = "returned"
           /\ sendResps = <<[status |-> 502,
                             error |-> <<"Failed to connect to email server">>,
                             details |-> transport.error]>>

C2_Witness ==
    /\ transport.verify = "failed" /\ transport.error = <<"connect ECONNREFUSED">>
    /\ sendPc = "returned" /\ Len(sendResps) = 1

-----------------------------------------------------------------------------
(* Properties of the generate handler *)

\* the prompt is missing, no string, or the empty string
BadPrompt ==
    \/ genReq.kind \in {"notjson", "null", "primitive"}
    \/ genReq.kind = "object" /\ genReq.prompt.type # "string"
    \/ genReq.kind = "object" /\ genReq.prompt.type = "string" /\ genReq.prompt.val = <<>>

\* C3 as stated: once more than 15 seconds have passed on a provider call that
\* has not completed, the call is abandoned and 504 UpstreamTimeout has been
\* returned, once, with no second call
C3_HardTimeout ==
    genElapsed > 15
        => /\ genProvider = "aborted"
           /\ genPc = "returned"
           /\ Len(genResps) = 1 /\ genResps[1].status = 504
           /\ genCalls = 1

\* C4: a missing, non-string or empty prompt is answered 400 and the provider
\* is never called, with or without GROQ_API_KEY
C4_InvalidInput ==
    (genPc # "idle" /\ BadPrompt)
        => /\ genCalls = 0
           /\ genProvider = "none"
           /\ genPc \in {"received", "returned"}
           /\ genPc = "returned" => (Len(genResps) = 1 /\ genResps[1].status = 400)

C4_Witness ==
    /\ genPc = "returned" /\ genKey
    /\ genReq.kind = "object" /\ genReq.prompt = [type |-> "string", val |-> <<>>]
    /\ Len(genResps) = 1 /\ genResps[1].status = 400

-----------------------------------------------------------------------------
(* Properties of both handlers *)

IsErrorBody(resp) == "error" \in DOMAIN resp /\ resp.status # 200

UpstreamFailed == genProvider = "done" /\ ~(genUpstream.status \in 200..299)

\* the status of a returned generate response reflects the failure's category
GenStatusByCategory ==
    genPc = "returned" =>
        /\ Len(genResps) = 1
        /\ genResps[1].status # 200 => IsErrorBody(genResps[1])
        /\ BadPrompt => genResps[1].status = 400
        /\ (~BadPrompt /\ ~genKey) => genResps[1].status = 500
        /\ genProvider = "aborted" => genResps[1].status = 504
        /\ UpstreamFailed => genResps[1].status = genUpstream.status
        /\ (genProvider = "done" /\ ~UpstreamFailed) => genResps[1].status \in {200, 502}

\* the status of a returned send response reflects the failure's category
SendStatusByCategory ==
    sendPc = "returned" =>
        /\ Len(sendResps) = 1
        /\ sendResps[1].status # 200 => IsErrorBody(sendResps[1])
        /\ ~PassedSchema => sendResps[1].status = 400
        /\ (PassedSchema /\ ~ConfigComplete) => sendResps[1].status = 500
        /\ (PassedSchema /\ ConfigComplete /\ NoValidPiece) => sendResps[1].status = 400
        /\ transport.verify = "failed" => sendResps[1].status = 502
        /\ transport.mail = "failed" => sendResps[1].status = 500
        /\ transport.mail = "ok" => sendResps[1].status = 200

\* the send handler can take its next step (SendValidate is enabled whenever
\* the request has been received)
SendCanStep ==
    \/ sendPc = "received"
    \/ ENABLED (VerifyOk \/ \E id \in MessageIds : SendMailOk(id))

\* C9 as stated: every invocation of either handler ends by returning exactly
\* one JSON response (an invocation not yet returned can still take a step),
\* and a failure's status reflects its category
C9_AlwaysOneStructuredResponse ==
    /\ genPc \in {"idle", "returned"} \/ ENABLED GenNext
    /\ sendPc \in {"idle", "returned"} \/ SendCanStep
    /\ genPc # "returned" => genResps = <<>>
    /\ sendPc # "returned" => sendResps = <<>>
    /\ GenStatusByCategory
    /\ SendStatusByCategory

\* C10: no retries and a fixed order. The provider is called at most once;
\* verify() at most once and only for a schema-valid request under a complete
\* configuration with a valid recipient; sendMail() at most once and only
\* after verify() succeeded; 200 only after that sendMail() succeeded; a
\* missing secret is answered 500 with no handshake
C10_LinearNoRetries ==
    /\ genCalls <= 1
    /\ verifyCalls <= 1
    /\ verifyCalls = 1 =>
          (PassedSchema /\ sendEnv.host /\ sendEnv.user /\ sendEnv.pass /\ ~NoValidPiece)
    /\ sendMailCalls <= 1
    /\ sendMailCalls = 1 => (verifyCalls = 1 /\ transport.verify = "ok")
    /\ transport.verify # "none" => verifyCalls = 1
    /\ transport.mail # "none" => sendMailCalls = 1
    /\ \A k \in 1..Len(sendResps) :
          sendResps[k].status = 200 => (sendMailCalls = 1 /\ transport.mail = "ok")
    /\ Len(sendResps) <= 1
    /\ (sendPc = "returned" /\ PassedSchema /\ ~sendEnv.pass)
          => (sendResps = <<ConfigurationError>> /\ verifyCalls = 0)

C10_Witness ==
    /\ sendPc = "returned" /\ sendMailCalls = 1 /\ verifyCalls = 1
    /\ transport.mail = "ok" /\ sendResps[1].status = 200
    /\ genPc = "returned" /\ genCalls = 1 /\ genResps[1].status = 200

-----------------------------------------------------------------------------
(* Properties of the recipient parse *)

\* C8: parsing the list re-joined with ', ' gives the list again: the same
\* addresses, in the same order, duplicates kept
C8_ParseIdempotent == recPc = "reparsed" => recAgain = recOut

C8_Witness ==
    /\ recPc = "reparsed"
    /\ recOut = <<(<<"a", "@", "b", ".", "c">>), (<<"a", "@", "b", ".", "c">>)>>
    /\ recAgain = recOut
    /\ recIn # JoinTo(recOut)

-----------------------------------------------------------------------------
(* Properties of the subject/body split *)

\* the reply content, trimmed
Content == Trim(subIn)

\* where the first line of a text ends
FirstBreak(t) ==
    Min({e \in 1..(Len(t) + 1) : e = Len(t) + 1 \/ t[e] \in {"\n", "\r"}})

HeadLine(t) == SubStr(t, 1, FirstBreak(t) - 1)

\* the lines of a text
LinesOf(t) ==
    {SubStr(t, a, b - 1) :
        <<a, b>> \in {<<a, b>> \in (1..(Len(t) + 1)) \X (1..(Len(t) + 1)) :
            /\ a <= b
            /\ a = 1 \/ t[a - 1] \in {"\n", "\r"}
            /\ b = Len(t) + 1 \/ t[b] \in {"\n", "\r"}
            /\ \A k \in a..(b - 1) : ~(t[k] \in {"\n", "\r"})}}

LowerCase(c) ==
    CASE c = "S" -> "s" [] c = "U" -> "u" [] c = "B" -> "b" [] c = "J" -> "j"
      [] c = "E" -> "e" [] c = "C" -> "c" [] c = "T" -> "t" [] OTHER -> c

\* a line `Subject: X`, in any case, with some text X
IsSubjectLine(l) ==
    /\ Len(l) > 8
    /\ [k \in 1..8 |-> LowerCase(l[k])] = <<"s", "u", "b", "j", "e", "c", "t", ":">>
    /\ \E k \in 9..Len(l) : ~(l[k] \in {" ", "\t", "\n", "\r"})

\* X of a line `Subject: X`
SubjectText(l) == SubStr(l, 9, Len(l))

\* C6 as stated: when the first line of the trimmed content is `Subject: X`,
\* the subject is X trimmed and no line of the body is that line
C6_LineAbsentFromBody ==
    (subPc = "shaped" /\ IsSubjectLine(HeadLine(Content)))
        => /\ subOut.status = 200
           /\ subOut.subject = Trim(SubjectText(HeadLine(Content)))
           /\ ~(HeadLine(Content) \in LinesOf(subOut.body))

\* C6 amended: when the first line of the trimmed content is `Subject: X`,
\* the subject is X trimmed and the body is what follows that first line,
\* trimmed: only this one line is taken out
C6_FirstLineRemoved ==
    (subPc = "shaped" /\ IsSubjectLine(HeadLine(Content)))
        => /\ subOut.status = 200
           /\ subOut.subject = Trim(SubjectText(HeadLine(Content)))
           /\ subOut.body =
                 Trim(SubStr(Content, Len(HeadLine(Content)) + 1, Len(Content)))

C6_Witness ==
    /\ subPc = "shaped"
    /\ subIn = <<"S", "U", "B", "J", "E", "C", "T", ":", " ", "a", "\n", "b">>
    /\ subOut = [status |-> 200, subject |-> <<"a">>, body |-> <<"b">>]

\* C7: a content that is not blank and has no line `Subject: <text>` comes back
\* under the default subject with the whole trimmed content as the body
C7_DefaultSubject ==
    (subPc = "shaped" /\ Content # <<>>
        /\ \A l \in LinesOf(Content) : ~IsSubjectLine(l))
        => /\ subOut.status = 200
           /\ subOut.subject = <<"Your AI-generated email">>
           /\ subOut.body = Content

-----------------------------------------------------------------------------
(* Properties of the page *)

UserStarts == (~loadingGen /\ loadingGen') \/ (~loadingSend /\ loadingSend')

RequestEnds == (loadingGen /\ ~loadingGen') \/ (loadingSend /\ ~loadingSend')

\* the status line shows the failure that ended the request h
ShowsFailure(h, fallback) ==
    (h.pc # "idle" /\ h'.pc = "idle" /\ h'.ended \in {"thrown", "failed"})
        => /\ status'.kind = "error"
           /\ h'.ended = "thrown" => status'.text = <<"Error: ", "Failed to fetch">>
           /\ (h'.ended = "failed" /\ h.res.body.parsed
                 /\ h.res.body.error # <<>> /\ h.res.body.error # <<"">>)
                 => status'.text = <<"Error: ">> \o h.res.body.error
           /\ (h'.ended = "failed" /\ ~h.res.body.parsed /\ h.res.body.len > 0)
                 => /\ status'.text = <<"Error: ", "Server returned non-JSON: ">> \o h.res.body.raw
                    /\ status'.cut <= 180
           /\ (h'.ended = "failed" /\ h.res.body.len = 0)
                 => status'.text = <<"Error: ">> \o fallback

\* C5 as stated: a request that ends in a failure shows its error string, and
\* a shown error is replaced only by the user starting a new Generate or Send
C5_ErrorStaysUntilUserActs ==
    [][/\ ShowsFailure(uiGen, <<"Generate failed">>)
       /\ ShowsFailure(uiSend, <<"Send failed">>)
       /\ (status.kind = "error" /\ status' # status) => UserStarts]_vars

\* C5 amended: a request that ends in a failure shows its error string when it
\* ends, and a shown error is replaced only by the user starting a new
\* Generate or Send or by the other request, still in flight, coming to its end
C5_ErrorShownWhenRequestEnds ==
    [][/\ ShowsFailure(uiGen, <<"Generate failed">>)
       /\ ShowsFailure(uiSend, <<"Send failed">>)
       /\ (status.kind = "error" /\ status' # status) => (UserStarts \/ RequestEnds)]_vars

C5_Witness ==
    /\ loadingGen /\ uiGen.pc = "reading" /\ uiGen.res.ok
    /\ ~loadingSend /\ uiSend = UiIdle("failed")
    /\ status = [kind |-> "error",
                 text |-> <<"Error: ", "Failed to connect to email server">>, cut |-> 0]

====
